---- MODULE Spec2Model ----
(***************************************************************************)
(* Speech-interaction orchestration of the Siddiqah voice-guided app.      *)
(*                                                                         *)
(* Two React components are modelled: App (src/App.tsx), which owns the    *)
(* screens, one shared <audio> element and one speech recognizer, and      *)
(* QuizScreen (src/unnamed/part_000), which owns its own <audio> element   *)
(* and creates a recognizer each time its recognition effect runs.         *)
(*                                                                         *)
(* One action = one browser task: an event handler, a timer callback or a  *)
(* promise reaction, run to completion, followed by the React render and   *)
(* the effects (clean-ups first, then bodies) that the state change makes  *)
(* run.  Callbacks are closures: every pending callback carries the values *)
(* of the render that created it.                                          *)
(*                                                                         *)
(* Browser behaviour assumed (HTML media elements, Web Speech API):        *)
(*  - play() sets paused to false at once; its promise resolves when       *)
(*    playback starts; it is rejected when the load fails (together with   *)
(*    an 'error' event, paused stays false) and when pause() or a new load *)
(*    interrupts it before playback started (AbortError);                  *)
(*  - 'ended' sets paused to true; listeners run in registration order,    *)
(*    React's own listener first, a listener removed meanwhile is skipped; *)
(*  - timers with the same or a smaller delay fire in the order set;       *)
(*  - SpeechRecognition.stop() stops listening but may still deliver a     *)
(*    result; abort() delivers nothing; start() on a started recognizer    *)
(*    throws.                                                              *)
(***************************************************************************)
EXTENDS Integers, Sequences, FiniteSets, TLC

\* ------------------------------------------------------------------ bounds
MaxListeners == 3     \* listener pairs + handler property on the App audio
MaxTimers == 2        \* pending App timers
MaxRejected == 2      \* rejected play() promises not yet reacted to

\* --------------------------------------------------------------- strings
\* A string is a sequence of one-character strings.
Punct == {".", ",", "?"}

Lower(c) ==
    CASE c = "S" -> "s"
      [] c = "Q" -> "q"
      [] c = "E" -> "e"
      [] c = "M" -> "m"
      [] c = "F" -> "f"
      [] OTHER -> c

toLowerCase(s) == [i \in 1..Len(s) |-> Lower(s[i])]

\* String.prototype.replace(/[.,?]/g, '')
stripPunct(s) == SelectSeq(s, LAMBDA c : c \notin Punct)

RECURSIVE trimStart(_)
trimStart(s) == IF s # <<>> /\ Head(s) = " " THEN trimStart(Tail(s)) ELSE s

RECURSIVE trimEnd(_)
trimEnd(s) ==
    IF s # <<>> /\ s[Len(s)] = " " THEN trimEnd(SubSeq(s, 1, Len(s) - 1)) ELSE s

trim(s) == trimEnd(trimStart(s))

\* String.prototype.includes
includes(s, k) == \E i \in 0..(Len(s) - Len(k)) : SubSeq(s, i + 1, i + Len(k)) = k

\* key.replace(/-/g, ' ')
hyphensToSpaces(s) == [i \in 1..Len(s) |-> IF s[i] = "-" THEN " " ELSE s[i]]

\* ----------------------------------------------------------------- data
\* Keyword lists of handleLandingCommand, each keyword abbreviated to a
\* short string over a small alphabet (the two-word quiz keyword keeps its
\* inner space).
surahKeywords == {<<"s", "u">>}
quizKeywords == {<<"q", "u">>, <<"v", " ", "v">>}
duaKeywords == {<<"d", "u">>}
continueWord == <<"c">>

\* The chapter catalog: keys in insertion order, two keys naming chapter 1,
\* and a key of chapter 2 that contains the short key of chapter 1.
surahKeys == << <<"f">>, <<"a", "-", "f">>, <<"n">>, <<"n", "f">> >>
surahNumber(key) == IF key \in {<<"n">>, <<"n", "f">>} THEN 2 ELSE 1
SurahNumbers == {surahNumber(surahKeys[i]) : i \in 1..Len(surahKeys)}

\* The supplication catalog, in catalog order, with its keywords.
duaDatabase == << {<<"m">>}, {<<"m", "e">>, <<"E">>} >>
Duas == 1..Len(duaDatabase)

Screens ==
    {"initial", "welcome", "landing", "surah", "quizRules", "quiz", "duaList",
     "duaPlayer"}

\* What the recognizer may return on each screen (the raw transcript).
Spoken(scr) ==
    CASE scr = "welcome" -> {<<"c">>, <<"x">>}
      [] scr = "landing" ->
           {<<"s", "u">>, <<"q", "u">>, <<"d", "u">>, <<"x">>,
            <<"S", "u", ".", " ", "q", "u">>, <<"q", "u", " ", "d", "u">>,
            <<"v", ".", " ", "v">>}
      [] scr = "surah" -> {<<"f">>, <<"a", " ", "f">>, <<"n">>, <<"x">>, <<" ">>}
      [] scr = "duaList" -> {<<"m">>, <<"M", "e">>, <<"x">>}
      [] OTHER -> {<<"x">>}

RecErrors == {"no-speech", "audio-capture", "network"}

\* ---------------------------------------------------------------- state
VARIABLES
    \* App (src/App.tsx)
    currentScreen, isListening, isPlaying, currentSurah, currentDua,
    failedRecognitionAttempts, isWelcomeSequencePlaying,
    postRecitationActionInProgress,
    audio,        \* the shared <audio>: src, paused, phase, catch, onended,
                  \* onplaying, listeners
    recognition,  \* recognitionRef.current: exists, phase, handlers
    orphan,       \* the recognizer dropped by recognitionRef.current = null
    rejected,     \* rejected play() promises whose catch has not run yet
    timers,       \* pending setTimeout callbacks, in the order set
    last,         \* history: the step just taken
    \* QuizScreen (src/unnamed/part_000)
    quiz,         \* the state, refs, <audio>, recognizer sessions and timers
                  \* of the mounted QuizScreen, as one record
    \* the speech-synthesis proxy (src/tts.js)
    tts           \* the request being served: position of the handler, the
                  \* requests sent upstream, the responses sent

None == [k |-> "none"]
Noop == [k |-> "noop"]
Prop == [k |-> "prop"]      \* the place of the onended property among listeners

appVars ==
    <<currentScreen, isListening, isPlaying, currentSurah, currentDua,
      failedRecognitionAttempts, isWelcomeSequencePlaying,
      postRecitationActionInProgress, audio, recognition, orphan, rejected,
      timers, last>>

vars == <<appVars, quiz, tts>>

\* The App state as one record, so that a handler is a function on it.
AppState ==
    [currentScreen |-> currentScreen, isListening |-> isListening,
     isPlaying |-> isPlaying, currentSurah |-> currentSurah,
     currentDua |-> currentDua,
     failedRecognitionAttempts |-> failedRecognitionAttempts,
     isWelcomeSequencePlaying |-> isWelcomeSequencePlaying,
     postRecitationActionInProgress |-> postRecitationActionInProgress,
     audio |-> audio, recognition |-> recognition, orphan |-> orphan,
     rejected |-> rejected, timers |-> timers, last |-> last]

CommitApp(r) ==
    /\ Len(r.audio.listeners) <= MaxListeners
    /\ Len(r.timers) <= MaxTimers
    /\ Len(r.rejected) <= MaxRejected
    /\ currentScreen' = r.currentScreen
    /\ isListening' = r.isListening
    /\ isPlaying' = r.isPlaying
    /\ currentSurah' = r.currentSurah
    /\ currentDua' = r.currentDua
    /\ failedRecognitionAttempts' = r.failedRecognitionAttempts
    /\ isWelcomeSequencePlaying' = r.isWelcomeSequencePlaying
    /\ postRecitationActionInProgress' = r.postRecitationActionInProgress
    /\ audio' = r.audio
    /\ recognition' = r.recognition
    /\ orphan' = r.orphan
    /\ rejected' = r.rejected
    /\ timers' = r.timers
    /\ last' = r.last
    /\ UNCHANGED <<quiz, tts>>

\* The values a render closes over (the dependencies of the callbacks).
Props(a) ==
    [scr |-> a.currentScreen, surah |-> a.currentSurah, dua |-> a.currentDua,
     failed |-> a.failedRecognitionAttempts]

\* ------------------------------------- the speech-synthesis proxy: data
MaxBody == 2          \* bytes in the longest upstream body

\* A query parameter: absent, or present with a value.
Absent == [has |-> FALSE, v |-> <<>>]
Given(v) == [has |-> TRUE, v |-> v]

TtsTexts == {Absent, Given(<<>>), Given(<<"a">>), Given(<<"a", " ", "b">>)}
TtsLangs == {Absent, Given(<<"t", "a">>), Given(<<"e", "n">>)}

\* what the upstream service may answer, and the bodies it may send
UpstreamStatuses == {200, 206, 404, 503}
Bodies == UNION {[1..n -> {0, 255}] : n \in 0..MaxBody}

\* Response.ok
ok(status) == status \in 200..299

\* const { text, lang = 'ta' } = req.query
ttsQuery_noDefault(query) == [text |-> query.text, lang |-> query.lang.v]
ttsQuery(query) ==
    [text |-> query.text,
     lang |-> IF query.lang.has THEN query.lang.v ELSE <<"t", "a">>]

\* !text: undefined and the empty string are falsy
Falsy(p) == ~p.has \/ p.v = <<>>

RECURSIVE encodeURIComponent(_)
encodeURIComponent(str) ==
    IF str = <<>> THEN <<>>
    ELSE (IF Head(str) = " " THEN <<"%", "2", "0">> ELSE <<Head(str)>>)
             \o encodeURIComponent(Tail(str))

\* the query string of ttsUrl
ttsUrl(text, lang) == [q |-> encodeURIComponent(text), tl |-> lang]

TtsIdle ==
    [pc |-> "idle", query |-> [text |-> Absent, lang |-> Absent],
     upstream |-> <<>>, reply |-> None, sent |-> <<>>]

\* res.status(status).send(text)
SendText(status, text) ==
    [status |-> status, text |-> text, contentType |-> "", contentLength |-> -1,
     bytes |-> <<>>]

\* ---------------------------------- the speech-synthesis proxy: handler
\* module.exports up to the first await: the request is rejected, or the
\* upstream request is sent
ttsHandle(query) ==
    LET q == ttsQuery(query)
    IN  IF Falsy(q.text)
        THEN [TtsIdle EXCEPT !.pc = "done", !.query = query,
                             !.sent = <<SendText(400, "Text query parameter is required")>>]
        ELSE [TtsIdle EXCEPT !.pc = "fetch", !.query = query,
                             !.upstream = <<ttsUrl(q.text.v, q.lang)>>]

\* fetch resolved: a reply that is not OK is relayed, else the body is read
ttsFetched_fallThrough(t, status) ==
    [t EXCEPT !.pc = "buffer", !.reply = [k |-> "reply", status |-> status]]
ttsFetched(t, status) ==
    IF ~ok(status)
    THEN [t EXCEPT !.pc = "done", !.reply = [k |-> "reply", status |-> status],
                   !.sent = Append(@, SendText(status, "Failed to fetch TTS from Google"))]
    ELSE [t EXCEPT !.pc = "buffer", !.reply = [k |-> "reply", status |-> status]]

\* arrayBuffer() resolved: Buffer.from, the two headers, res.send(buffer)
ttsBuffered(t, arrayBuffer) ==
    LET buffer == arrayBuffer
    IN  [t EXCEPT !.pc = "done",
                  !.reply = [k |-> "reply", status |-> t.reply.status,
                             body |-> arrayBuffer],
                  !.sent = Append(@, [status |-> 200, text |-> "",
                                      contentType |-> "audio/mpeg",
                                      contentLength |-> Len(buffer),
                                      bytes |-> buffer])]

\* the catch block
ttsCatch(t) ==
    [t EXCEPT !.pc = "done", !.reply = [k |-> "threw", at |-> t.pc],
              !.sent = Append(@, SendText(500, "Internal Server Error"))]

\* ------------------------------------------------------ QuizScreen: data
MaxSessions == 1      \* recognizer sessions listening at the same time
MaxQuizTimers == 2    \* pending QuizScreen timers
MaxQuizRejected == 1  \* rejected play() promises not yet reacted to
BankSize == 2         \* questions in the bank (quizQuestions)
MaxGames == 2         \* quiz sessions played in one visit

SessionSize == 5           \* shuffled.slice(0, 5)
AttemptsPerQuestion == 3   \* setAttemptsLeft(3)
NoAnswer == -1             \* selectedAnswer === null

QuestionBank == 1..BankSize
correctAnswer(q) == q - 1        \* question.correctAnswer
NumOptions == 3              \* options of a question
OptionIndexes == 0..(NumOptions - 1)

Min(x, y) == IF x < y THEN x ELSE y

\* the results of [...quizQuestions].sort(() => 0.5 - Math.random()) for a
\* bank of n questions: the questions of the bank in any order (sort
\* rearranges the copy it is given, whatever the comparison function says)
Shuffles(n) ==
    {p \in [1..n -> 1..n] : \A i, j \in 1..n : i # j => p[i] # p[j]}

\* Array.prototype.slice(0, end)
slice(a, end) == SubSeq(a, 1, Min(end, Len(a)))

oneWords == {<<"o", "n", "e">>, <<"1">>}
twoWords == {<<"t", "w", "o">>, <<"2">>}
threeWords == {<<"t", "h", "r", "e", "e">>, <<"3">>}
fourWords == {<<"f", "o", "u", "r">>, <<"4">>}
optionWord == <<"o", "p", "t", "i", "o", "n">>

QuizSpoken ==
    {<<"1">>, <<"2">>, <<"x">>, optionWord}

QuizOff == [isMounted |-> FALSE]

NoAudio ==
    [exists |-> FALSE, paused |-> TRUE, phase |-> "none", handler |-> None,
     catch |-> None]

\* the QuizScreen after its first render, before the mount effect
QuizBlank ==
    [isMounted |-> TRUE, gameState |-> "playing", sessionQuestions |-> <<>>,
     currentQuestionIndex |-> 0, selectedAnswer |-> NoAnswer,
     isCorrect |-> "null", score |-> 0, attemptsLeft |-> AttemptsPerQuestion,
     isScored |-> FALSE, status |-> "idle", resultProcessed |-> FALSE,
     games |-> 0, audio |-> NoAudio, sessions |-> {}, timers |-> <<>>,
     rejected |-> <<>>, last |-> [op |-> "mount", arg |-> <<>>]]

\* what the callbacks of a render close over
Closure(s) ==
    [qs |-> s.sessionQuestions, idx |-> s.currentQuestionIndex,
     sel |-> s.selectedAnswer, att |-> s.attemptsLeft, scored |-> s.isScored,
     st |-> s.status]

\* sessionQuestions[currentQuestionIndex] is defined
HasQuestion(qs, idx) == idx + 1 \in 1..Len(qs)

\* the view with the <audio> element is rendered
PlayingView(s) ==
    s.gameState = "playing" /\ HasQuestion(s.sessionQuestions, s.currentQuestionIndex)

\* ------------------------------------------------ QuizScreen: callbacks
\* audioRef.current.pause() on an element that is not paused
QuizPause(s) ==
    [s EXCEPT !.rejected = IF s.audio.phase = "pending" /\ s.audio.catch # None
                           THEN Append(@, s.audio.catch) ELSE @,
              !.audio.paused = TRUE, !.audio.phase = "none",
              !.audio.catch = None]

stopAllActivity(s) ==
    LET s1 == [s EXCEPT !.timers = SelectSeq(@, LAMBDA t : ~t.ref)]
        s2 == IF s1.audio.exists /\ ~s1.audio.paused
              THEN [QuizPause(s1) EXCEPT !.audio.handler = None]
              ELSE s1
    IN  [s2 EXCEPT !.status = IF s.isMounted THEN "idle" ELSE @]

\* c: the closure of the render whose proceedToNext this is
proceedToNext(s, c) ==
    LET s1 == stopAllActivity(s)
    IN  IF c.idx < Len(c.qs) - 1
        THEN [s1 EXCEPT !.currentQuestionIndex = @ + 1]
        ELSE [s1 EXCEPT !.gameState = IF s.isMounted THEN "finished" ELSE @]

\* recognitionRef.current.start(): the started recognizer keeps the handlers
\* of this render (closure c); the render that follows setStatus('listening')
\* puts a new recognizer into recognitionRef.
quizStartListening(s, c) ==
    IF ~s.isMounted \/ c.st # "idle" \/ c.sel # NoAnswer THEN s
    ELSE [s EXCEPT !.resultProcessed = FALSE, !.status = "listening",
                   !.sessions = @ \cup {c}]

\* timeoutRef.current = setTimeout(...): the timer set before is forgotten
setRefTimer(s, t) ==
    [s EXCEPT !.timers =
                  Append([i \in 1..Len(@) |-> [@[i] EXCEPT !.ref = FALSE]],
                         [t EXCEPT !.ref = TRUE])]

\* audio.src = ttsUrl; audio.onended = audio.onerror = h; play().catch(h)
quizPlay(s, h) ==
    [s EXCEPT !.status = "speaking",
              !.rejected = IF s.audio.phase = "pending" /\ s.audio.catch # None
                           THEN Append(@, s.audio.catch) ELSE @,
              !.audio.paused = FALSE, !.audio.phase = "pending",
              !.audio.handler = h, !.audio.catch = h]

\* what proceedToNext reads of its render
ProceedClosure(c) == [qs |-> c.qs, idx |-> c.idx]

playFeedbackAudio(s, c, type) ==
    IF ~s.audio.exists THEN s
    ELSE quizPlay(stopAllActivity(s),
                  [k |-> "feedback", type |-> type, c |-> ProceedClosure(c),
                   old |-> FALSE])

ListenTimer == [k |-> "listen", ms |-> 100, ref |-> FALSE, c |-> None]

\* onAudioEnd of the prompt with handler h: reached from 'ended', from
\* 'error' and from the rejection of play()
onAudioEnd(s, h) ==
    LET s1 == IF h.old THEN s ELSE [s EXCEPT !.audio.handler = None]
    IN  IF ~s.isMounted THEN s1
        ELSE CASE h.k = "question" ->
                    [s1 EXCEPT !.status = "idle", !.timers = Append(@, ListenTimer)]
               [] h.k = "feedback" /\ h.type = "correct" ->
                    setRefTimer(s1, [k |-> "proceed", ms |-> 1000, ref |-> TRUE,
                                     c |-> h.c])
               [] h.k = "feedback" /\ h.type = "incorrect" ->
                    setRefTimer([s1 EXCEPT !.selectedAnswer = NoAnswer,
                                           !.isCorrect = "null",
                                           !.status = "idle"],
                                ListenTimer)
               [] h.k = "feedback" /\ h.type = "final_incorrect" ->
                    setRefTimer(s1, [k |-> "proceed", ms |-> 2000, ref |-> TRUE,
                                     c |-> h.c])
               [] h.k = "score" -> [s1 EXCEPT !.status = "idle"]
               [] OTHER ->   \* the retry prompt and the invalid-answer prompt
                    setRefTimer([s1 EXCEPT !.status = "idle"], ListenTimer)

handleSelectAnswer(s, c, index) ==
    IF c.sel # NoAnswer THEN s
    ELSE LET isAnswerCorrect == index = correctAnswer(c.qs[c.idx + 1])
             s1 == [stopAllActivity(s)
                       EXCEPT !.selectedAnswer = index,
                              !.isCorrect = IF isAnswerCorrect THEN "true" ELSE "false"]
             newAttemptsLeft == c.att - 1
         IN  IF isAnswerCorrect
             THEN playFeedbackAudio(
                      IF c.scored THEN s1
                      ELSE [s1 EXCEPT !.score = @ + 1, !.isScored = TRUE],
                      c, "correct")
             ELSE playFeedbackAudio(
                      [s1 EXCEPT !.attemptsLeft = newAttemptsLeft], c,
                      IF newAttemptsLeft > 0 THEN "incorrect" ELSE "final_incorrect")

playQuestionAudio(s) ==
    IF ~s.audio.exists THEN s
    ELSE quizPlay(stopAllActivity(s), [k |-> "question", old |-> FALSE])

handleRecognitionFailure(s, c) ==
    IF c.sel # NoAnswer \/ ~s.isMounted THEN s
    ELSE LET newAttemptsLeft == c.att - 1
             s1 == [stopAllActivity(s) EXCEPT !.attemptsLeft = newAttemptsLeft]
         IN  IF newAttemptsLeft > 0
             THEN IF ~s1.audio.exists THEN s1
                  ELSE quizPlay(s1, [k |-> "retry", old |-> FALSE])
             ELSE playFeedbackAudio(s1, c, "final_incorrect")

playInvalidAnswerFeedback(s) ==
    IF ~s.audio.exists THEN s
    ELSE quizPlay(stopAllActivity(s), [k |-> "invalid", old |-> FALSE])

has(text, lower, words) ==
    \E w \in words : includes(lower, w) \/ includes(text, w)

\* the option index a transcript names, -1 for none
answerIndex(cleanTranscript) ==
    LET lower == toLowerCase(cleanTranscript)
    IN  IF has(cleanTranscript, lower, oneWords) THEN 0
        ELSE IF has(cleanTranscript, lower, twoWords) THEN 1
        ELSE IF has(cleanTranscript, lower, threeWords) THEN 2
        ELSE IF has(cleanTranscript, lower, fourWords) THEN 3
        ELSE -1

\* recognition.onresult of the recognizer created by the render with closure c
quizOnresult(s, c, recognizedText) ==
    IF ~s.isMounted \/ c.sel # NoAnswer THEN s
    ELSE LET s1 == [s EXCEPT !.resultProcessed = TRUE]
             cleanTranscript == stripPunct(trim(recognizedText))
         IN  IF toLowerCase(cleanTranscript) = optionWord
             THEN handleRecognitionFailure(s1, c)
             ELSE IF ~HasQuestion(c.qs, c.idx) THEN s1
             ELSE IF answerIndex(cleanTranscript) > -1
             THEN handleSelectAnswer(s1, c, answerIndex(cleanTranscript))
             ELSE playInvalidAnswerFeedback(s1)

\* recognition.onend
quizOnend(s, c) ==
    IF s.isMounted /\ c.st = "listening"
    THEN IF ~s.resultProcessed THEN handleRecognitionFailure(s, c)
         ELSE [s EXCEPT !.status = "idle"]
    ELSE s

\* shuffled: what the sort returned
startNewQuiz_unsliced(s, shuffled) ==
    [stopAllActivity(s) EXCEPT !.sessionQuestions = shuffled,
                               !.currentQuestionIndex = 0, !.score = 0,
                               !.gameState = "playing", !.games = @ + 1]
startNewQuiz(s, shuffled) ==
    [stopAllActivity(s) EXCEPT !.sessionQuestions = slice(shuffled, SessionSize),
                               !.currentQuestionIndex = 0, !.score = 0,
                               !.gameState = "playing", !.games = @ + 1]

\* ----------------------------------------------- QuizScreen: the effects
\* The commit of a render: the <audio> element exists exactly in the view
\* of a question.  An element that leaves the document is paused; what is
\* still to run of its callbacks belongs to the old element.
commitAudio(s) ==
    IF PlayingView(s) = s.audio.exists THEN s
    ELSE IF PlayingView(s)
    THEN [s EXCEPT !.audio = [NoAudio EXCEPT !.exists = TRUE]]
    ELSE LET s1 == IF s.audio.paused THEN s ELSE QuizPause(s)
         IN  [s1 EXCEPT !.audio = NoAudio,
                        !.rejected = [i \in 1..Len(@) |-> [@[i] EXCEPT !.old = TRUE]]]

\* the effect on [gameState, currentQuestionIndex, questionTrigger,
\* sessionQuestions]: a new question is reset and read out
questionEffect(s, run) ==
    IF run /\ s.gameState = "playing" /\ Len(s.sessionQuestions) > 0
           /\ HasQuestion(s.sessionQuestions, s.currentQuestionIndex)
    THEN playQuestionAudio([s EXCEPT !.selectedAnswer = NoAnswer,
                                     !.isCorrect = "null",
                                     !.attemptsLeft = AttemptsPerQuestion,
                                     !.isScored = FALSE])
    ELSE s

\* the effect on [gameState, score, sessionQuestions]: the score is read out
\* 200 ms later
scoreEffect(s, run) ==
    IF run /\ s.gameState = "finished" /\ Len(s.sessionQuestions) > 0
           /\ s.audio.exists
    THEN LET s1 == [stopAllActivity(s) EXCEPT !.status = "speaking",
                        !.audio.handler = [k |-> "score", old |-> FALSE]]
         IN  [s1 EXCEPT !.timers = Append(@, [k |-> "score", ms |-> 200,
                                              ref |-> FALSE, c |-> None])]
    ELSE s

\* render and effects after a handler turned state prev into state cur
QuizRender(prev, cur) ==
    LET s1 == commitAudio(cur)
        s2 == questionEffect(s1,
                  \/ prev.gameState # cur.gameState
                  \/ prev.currentQuestionIndex # cur.currentQuestionIndex
                  \/ prev.games # cur.games)
    IN  scoreEffect(s2,
            \/ prev.gameState # cur.gameState
            \/ prev.score # cur.score
            \/ prev.games # cur.games)

\* the mount effect, and the render that follows it (`last` is history:
\* startNewQuiz ran, and what its shuffle returned)
QuizMount(shuffled) ==
    [QuizRender(QuizBlank, startNewQuiz(QuizBlank, shuffled))
        EXCEPT !.last = [op |-> "startNewQuiz", arg |-> shuffled]]

\* ------------------------------------------------- QuizScreen: actions
\* `last` is history: the timer that fired, what a recognizer delivered,
\* what the shuffle of startNewQuiz returned, an audio that failed to load
\* (any other step is "step")
QuizHistory ==
    {"QuizTimerFires", "SessionResult", "SessionEnd", "startNewQuiz",
     "QuizAudioError"}

QuizBegin(op, arg) ==
    [quiz EXCEPT !.last = IF op \in QuizHistory THEN [op |-> op, arg |-> arg]
                          ELSE [op |-> "step", arg |-> <<>>]]

\* The handler's result is rendered and its effects run.  A result beyond
\* the bounds of the model is not explored: the run ends there with the
\* quiz closed, so that no bound ever keeps a pending event from happening.
QuizCommit(s0, s) ==
    \E cur \in {s} : \E r \in {QuizRender(s0, cur)} :
        LET explored == /\ Len(r.timers) <= MaxQuizTimers
                        /\ Len(r.rejected) <= MaxQuizRejected
                        /\ Cardinality(r.sessions) <= MaxSessions
                        /\ r.games <= MaxGames
        IN  /\ quiz' = IF explored THEN r ELSE QuizOff
            /\ UNCHANGED <<appVars, tts>>

QuizQuiet == quiz.isMounted /\ quiz.rejected = <<>>

\* an option button; the buttons are disabled while an answer is selected
ClickOption ==
    /\ QuizQuiet /\ PlayingView(quiz) /\ quiz.selectedAnswer = NoAnswer
    /\ \E index \in OptionIndexes :
           LET s == QuizBegin("ClickOption", <<index>>)
           IN  QuizCommit(s, handleSelectAnswer(s, Closure(s), index))

\* the microphone button, shown while status is 'idle'
ClickMic ==
    /\ QuizQuiet /\ PlayingView(quiz)
    /\ quiz.status = "idle" /\ quiz.selectedAnswer = NoAnswer
    /\ LET s == QuizBegin("ClickMic", <<>>)
       IN  QuizCommit(s, quizStartListening(s, Closure(s)))

\* 'play again' on the score card
ClickPlayAgain ==
    /\ QuizQuiet /\ quiz.gameState = "finished"
    /\ \E shuffled \in Shuffles(BankSize) :
           LET s == QuizBegin("startNewQuiz", shuffled)
           IN  QuizCommit(s, startNewQuiz(s, shuffled))

\* the home button: handleGoBack, then the clean-up of the mount effect.
\* React drops the state of the unmounted component, and every callback
\* still to come returns at its isMountedRef check.
ClickHome ==
    /\ QuizQuiet /\ (PlayingView(quiz) \/ quiz.gameState = "finished")
    /\ quiz' = QuizOff
    /\ UNCHANGED <<appVars, tts>>

QuizAudioPlaying ==
    /\ QuizQuiet /\ quiz.audio.phase = "pending"
    /\ LET s == QuizBegin("QuizAudioPlaying", <<>>)
       IN  QuizCommit(s, [s EXCEPT !.audio.phase = "playing", !.audio.catch = None])

QuizAudioEnded ==
    /\ QuizQuiet /\ quiz.audio.phase = "playing"
    /\ LET s == QuizBegin("QuizAudioEnded", <<>>)
           s1 == [s EXCEPT !.audio.phase = "none", !.audio.paused = TRUE]
       IN  QuizCommit(s, IF s.audio.handler = None THEN s1
                         ELSE onAudioEnd(s1, s.audio.handler))

\* the source fails to load: 'error' fires, then play() is rejected
QuizAudioError ==
    /\ QuizQuiet /\ quiz.audio.phase = "pending"
    /\ LET s == QuizBegin("QuizAudioError", <<>>)
           s1 == [s EXCEPT !.audio.phase = "none", !.audio.catch = None]
           s2 == IF s.audio.handler = None THEN s1
                 ELSE onAudioEnd(s1, s.audio.handler)
       IN  QuizCommit(s, IF s.audio.catch = None THEN s2
                         ELSE onAudioEnd(s2, s.audio.catch))

\* the catch callback of a play() that was interrupted
QuizRunRejected ==
    /\ quiz.isMounted /\ quiz.rejected # <<>>
    /\ LET s == QuizBegin("QuizRunRejected", <<>>)
           s1 == [s EXCEPT !.rejected = Tail(@)]
       IN  QuizCommit(s, onAudioEnd(s1, Head(s.rejected)))

fireQuizTimer(s, t) ==
    CASE t.k = "proceed" -> proceedToNext(s, t.c)
      [] t.k = "listen" ->
           IF s.isMounted THEN quizStartListening(s, Closure(s)) ELSE s
      [] OTHER ->
           IF s.audio.exists /\ s.isMounted
           THEN [quizPlay(s, s.audio.handler) EXCEPT !.status = s.status]
           ELSE s

QuizTimerFires ==
    /\ QuizQuiet
    /\ \E i \in 1..Len(quiz.timers) :
           /\ \A j \in 1..(i - 1) : quiz.timers[j].ms > quiz.timers[i].ms
           /\ LET s == QuizBegin("QuizTimerFires", <<quiz.timers[i].k>>)
                  s1 == [s EXCEPT !.timers =
                                      SubSeq(@, 1, i - 1) \o SubSeq(@, i + 1, Len(@))]
              IN  QuizCommit(s, fireQuizTimer(s1, quiz.timers[i]))

\* a listening recognizer delivers a result and ends
SessionResult ==
    /\ QuizQuiet
    /\ \E c \in quiz.sessions, text \in QuizSpoken :
           LET s == QuizBegin("SessionResult", text)
               s1 == [s EXCEPT !.sessions = @ \ {c}]
           IN  QuizCommit(s, quizOnend(quizOnresult(s1, c, text), c))

\* a listening recognizer ends without a result: 'error' (logged), 'end'
SessionEnd ==
    /\ QuizQuiet
    /\ \E c \in quiz.sessions :
           LET s == QuizBegin("SessionEnd", <<>>)
               s1 == [s EXCEPT !.sessions = @ \ {c}]
           IN  QuizCommit(s, quizOnend(s1, c))

\* the App while the 'quiz' screen is shown
AppOnQuiz ==
    /\ currentScreen = "quiz"
    /\ isListening = FALSE
    /\ isPlaying = FALSE
    /\ currentSurah = 0
    /\ currentDua = 0
    /\ failedRecognitionAttempts = 0
    /\ isWelcomeSequencePlaying = FALSE
    /\ postRecitationActionInProgress = FALSE
    /\ audio = [src |-> "rules", paused |-> TRUE, phase |-> "none", catch |-> None,
                onended |-> None, onplaying |-> FALSE, listeners |-> <<>>]
    /\ recognition = [exists |-> FALSE, phase |-> "idle", handlers |-> None]
    /\ orphan = None
    /\ rejected = <<>>
    /\ timers = <<>>
    /\ last = [op |-> "step", arg |-> <<>>, stale |-> FALSE, msg |-> ""]
    /\ tts = TtsIdle

InitQuiz == AppOnQuiz /\ \E shuffled \in Shuffles(BankSize) : quiz = QuizMount(shuffled)

NextQuiz ==
    \/ ClickOption \/ ClickMic \/ ClickPlayAgain \/ ClickHome
    \/ QuizAudioPlaying \/ QuizAudioEnded \/ QuizAudioError \/ QuizRunRejected
    \/ QuizTimerFires \/ SessionResult \/ SessionEnd

\* The QuizScreen from its mount on the 'quiz' screen.
SpecQuiz == InitQuiz /\ [][NextQuiz]_vars

\* ----------------------------------------------------- QuizScreen: claims
\* a step of the mounted QuizScreen
QuizStep == quiz.isMounted /\ quiz'.isMounted

\* a step within one question of one session
SameQuestion ==
    /\ QuizStep
    /\ quiz'.games = quiz.games
    /\ quiz'.currentQuestionIndex = quiz.currentQuestionIndex
    /\ quiz.gameState = "playing" /\ quiz'.gameState = "playing"

\* C2: in the quiz no recognizer session is listening while quiz audio
\* plays or while status is 'speaking': every session started earlier has
\* been aborted before audio is started.
C2_NoSessionWhileSpeaking ==
    quiz.isMounted =>
        ~(/\ quiz.sessions # {}
          /\ quiz.audio.phase = "playing" \/ quiz.status = "speaking")

\* C3: attemptsLeft stays within 0..3, goes down by exactly 1 when it
\* changes within a question, and once it is 0 nothing more is accepted for
\* that question: neither attemptsLeft nor the score changes.
C3_AtMostThreeAttempts ==
    [][/\ QuizStep => quiz'.attemptsLeft \in 0..AttemptsPerQuestion
       /\ SameQuestion =>
              \/ quiz'.attemptsLeft = quiz.attemptsLeft
              \/ quiz'.attemptsLeft = quiz.attemptsLeft - 1
       /\ SameQuestion /\ quiz.attemptsLeft = 0 =>
              quiz'.attemptsLeft = 0 /\ quiz'.score = quiz.score]_vars

\* C4: the score goes up by exactly 1, only for a correct option and only
\* once per question, so that score <= questions reached <= session length.
C4_ScoreOncePerQuestion ==
    [][QuizStep =>
          /\ quiz'.score <= quiz'.currentQuestionIndex + 1
          /\ quiz'.currentQuestionIndex + 1 <= Len(quiz'.sessionQuestions)
          /\ quiz'.games = quiz.games =>
                 \/ quiz'.score = quiz.score
                 \/ /\ quiz'.score = quiz.score + 1
                    /\ quiz'.isCorrect = "true"
                    /\ ~quiz.isScored]_vars

\* C5: gameState turns from 'playing' to 'finished' only in proceedToNext
\* at the last index; currentQuestionIndex stays within 0..length-1 and
\* goes up by 1 only, and only after the question was answered correctly or
\* its attempts ran out.
C5_ScoreCardAfterLastQuestion ==
    [][QuizStep /\ quiz'.games = quiz.games =>
          /\ quiz'.currentQuestionIndex \in 0..(Len(quiz'.sessionQuestions) - 1)
          /\ quiz.gameState = "playing" /\ quiz'.gameState = "finished" =>
                 /\ quiz'.last = [op |-> "QuizTimerFires", arg |-> <<"proceed">>]
                 /\ quiz.currentQuestionIndex = Len(quiz.sessionQuestions) - 1
          /\ quiz'.currentQuestionIndex # quiz.currentQuestionIndex =>
                 /\ quiz'.currentQuestionIndex = quiz.currentQuestionIndex + 1
                 /\ quiz.isScored \/ quiz.attemptsLeft <= 0]_vars

\* Scheduling of the quiz: a started audio starts playing or fails, a
\* playing audio ends, a rejected play() runs its catch callback, timers
\* fire, a listening recognizer delivers a result or ends, and the user keeps
\* answering with the option buttons and the microphone button whenever
\* they can be used.  Leaving with the home button is never forced.
FairSpecQuiz ==
    /\ SpecQuiz
    /\ WF_vars(QuizAudioPlaying \/ QuizAudioError)
    /\ WF_vars(QuizAudioEnded)
    /\ WF_vars(QuizRunRejected)
    /\ WF_vars(QuizTimerFires)
    /\ WF_vars(SessionResult \/ SessionEnd)
    /\ SF_vars(ClickOption)
    /\ SF_vars(ClickMic)

\* C6: under this scheduling a session that is 'playing' eventually shows
\* its score card (gameState 'finished'), unless the user leaves the quiz; it
\* never stays 'listening' or 'speaking' for ever.
C6_ReachesScoreCard ==
    (quiz.isMounted /\ quiz.gameState = "playing")
        ~> (~quiz.isMounted \/ quiz.gameState = "finished")

\* the words that name option k
OptionWords(k) ==
    CASE k = 0 -> oneWords
      [] k = 1 -> twoWords
      [] k = 2 -> threeWords
      [] OTHER -> fourWords

\* the utterance names option k: one of its words occurs in it
Mentions(t, k) ==
    \E w \in OptionWords(k) :
        includes(toLowerCase(stripPunct(trim(t))), toLowerCase(w))

\* what a click on option k does in state s (nothing when the option
\* buttons are not shown or are disabled)
ClickEffect(s, k) ==
    IF PlayingView(s) /\ s.selectedAnswer = NoAnswer
    THEN QuizRender(s, handleSelectAnswer(s, Closure(s), k))
    ELSE s

\* C11: in the quiz a spoken answer is a click: the utterance is mapped to
\* the first option it names in the order one, two, three, four, and the
\* result has exactly the effect on selectedAnswer, isCorrect, score and
\* attemptsLeft that a click on that option has in the same state.
C11_SpokenAnswerIsClick ==
    [][(QuizStep /\ quiz'.last.op = "SessionResult") =>
          \A k \in 0..3 :
              (/\ Mentions(quiz'.last.arg, k)
               /\ \A j \in 0..(k - 1) : ~Mentions(quiz'.last.arg, j)) =>
                  /\ quiz'.selectedAnswer = ClickEffect(quiz, k).selectedAnswer
                  /\ quiz'.isCorrect = ClickEffect(quiz, k).isCorrect
                  /\ quiz'.score = ClickEffect(quiz, k).score
                  /\ quiz'.attemptsLeft = ClickEffect(quiz, k).attemptsLeft]_vars

\* C15: onend is the single source of truth for the end of a listening
\* session: when a started session ends and no result was processed, its
\* onend calls handleRecognitionFailure once, which takes one attempt; when
\* a result was processed, onend adds nothing to what onresult did except
\* status 'idle'.
C15_OnendCountsFailure ==
    [][(/\ QuizStep /\ quiz'.last.op = "SessionEnd"
        /\ ~quiz.resultProcessed
        /\ quiz.selectedAnswer = NoAnswer /\ PlayingView(quiz))
          => quiz'.attemptsLeft = quiz.attemptsLeft - 1]_vars

\* the state after the audio that is starting in state s has played to
\* its end instead
AsIfEnded(s) ==
    LET s1 == [s EXCEPT !.audio.phase = "none", !.audio.paused = TRUE,
                        !.audio.catch = None]
    IN  QuizRender(s, IF s.audio.handler = None THEN s1
                      ELSE onAudioEnd(s1, s.audio.handler))

\* C16: quiz progress does not depend on audio succeeding: when a question,
\* feedback, invalid-answer or retry audio fails to play, the quiz goes on
\* exactly as if the audio had ended, and this continuation runs once: the
\* same timers are pending and the same state is shown.
C16_FailedAudioIsEndedAudio ==
    [][(QuizStep /\ quiz'.last.op = "QuizAudioError") =>
          /\ quiz'.timers = AsIfEnded(quiz).timers
          /\ quiz'.status = AsIfEnded(quiz).status
          /\ quiz'.selectedAnswer = AsIfEnded(quiz).selectedAnswer
          /\ quiz'.isCorrect = AsIfEnded(quiz).isCorrect
          /\ quiz'.gameState = AsIfEnded(quiz).gameState
          /\ quiz'.currentQuestionIndex = AsIfEnded(quiz).currentQuestionIndex
          /\ quiz'.sessions = AsIfEnded(quiz).sessions]_vars

\* ------------------------------------------- QuizScreen: the deal alone
MaxBank == 6          \* questions in the largest bank dealt from

\* The 'quiz' screen is opened: QuizScreen mounts and startNewQuiz deals
\* from a bank of n questions.
DealMount ==
    /\ ~quiz.isMounted
    /\ \E n \in 1..MaxBank : \E shuffled \in Shuffles(n) : quiz' = QuizMount(shuffled)
    /\ UNCHANGED <<appVars, tts>>

InitDeal == AppOnQuiz /\ quiz = QuizOff

NextDeal == DealMount \/ ClickHome

\* Opening and leaving the quiz, for banks of 1..MaxBank questions.
SpecDeal == InitDeal /\ [][NextDeal]_vars

RangeOf(a) == {a[i] : i \in 1..Len(a)}

\* C12: startNewQuiz builds a session of exactly 5 pairwise distinct
\* questions of the bank (all of them when the bank has fewer than 5), and
\* the list of a session changes in no other step.
C12_SessionOfFive ==
    [][quiz'.isMounted =>
          IF quiz'.last.op = "startNewQuiz"
          THEN LET bank == RangeOf(quiz'.last.arg)
                   qs == quiz'.sessionQuestions
               IN  /\ Len(qs) = IF Cardinality(bank) < 5 THEN Cardinality(bank) ELSE 5
                   /\ \A i, j \in 1..Len(qs) : i # j => qs[i] # qs[j]
                   /\ RangeOf(qs) \subseteq bank
          ELSE /\ quiz.isMounted
               /\ quiz'.sessionQuestions = quiz.sessionQuestions]_vars

\* a session of 5 was dealt from a bank of more than 5 questions
C12_Witness ==
    /\ quiz.isMounted /\ quiz.last.op = "startNewQuiz"
    /\ Len(quiz.last.arg) > 5
    /\ Len(quiz.sessionQuestions) = 5

\* ------------------------------------------------- App: audio primitives
RECURSIVE RemoveFirst(_, _)
RemoveFirst(s, x) ==
    IF s = <<>> THEN <<>>
    ELSE IF Head(s) = x THEN Tail(s)
    ELSE <<Head(s)>> \o RemoveFirst(Tail(s), x)

InSeq(s, x) == \E i \in 1..Len(s) : s[i] = x

\* A play() promise that is still pending is rejected: its catch callback
\* is queued (a callback without modelled effect is dropped).
RejectPending(a) ==
    IF a.audio.phase = "pending" /\ a.audio.catch.k \notin {"none", "noop"}
    THEN [a EXCEPT !.rejected = Append(@, a.audio.catch)]
    ELSE a

\* HTMLMediaElement.pause()
Pause(a) ==
    IF a.audio.paused THEN a
    ELSE [RejectPending(a) EXCEPT !.audio.paused = TRUE,
                                  !.audio.phase = "none",
                                  !.audio.catch = None]

\* audio.src = src; audio.play().catch(cb)
Play(a, src, cb) ==
    [RejectPending(a) EXCEPT !.audio.src = src, !.audio.paused = FALSE,
                             !.audio.phase = "pending", !.audio.catch = cb]

\* audio.onended = h
SetOnended(a, h) ==
    [a EXCEPT !.audio.onended = h,
              !.audio.listeners =
                  IF h = None THEN RemoveFirst(@, Prop)
                  ELSE IF InSeq(@, Prop) THEN @ ELSE Append(@, Prop)]

stopListening(a) ==
    IF a.recognition.exists /\ a.recognition.phase = "listening"
    THEN [a EXCEPT !.recognition.phase = "stopping"]
    ELSE a

stopPlayback(a, scr, clearState) ==
    LET a1 == [a EXCEPT !.timers = SelectSeq(@, LAMBDA t : t.k # "playback")]
        a2 == SetOnended(Pause(a1), None)
        a3 == [a2 EXCEPT !.isPlaying = FALSE]
    IN  IF clearState
        THEN [a3 EXCEPT !.currentDua = IF scr # "duaPlayer" THEN 0 ELSE @,
                        !.currentSurah = IF scr # "surah" THEN 0 ELSE @]
        ELSE a3

startListening(a, force) ==
    IF ~force /\ ~a.audio.paused /\ ~a.isWelcomeSequencePlaying THEN a
    ELSE IF ~a.recognition.exists THEN a
    ELSE [a EXCEPT !.isListening = TRUE,
                   !.recognition.phase = IF @ = "idle" THEN "listening" ELSE @]

goBackToDuaList(a, scr) ==
    [stopListening(stopPlayback(a, scr, TRUE))
        EXCEPT !.currentDua = 0, !.currentScreen = "duaList"]

goBack(a, scr) ==
    [stopListening(stopPlayback(a, scr, TRUE))
        EXCEPT !.currentScreen = "landing", !.currentDua = 0,
               !.isListening = FALSE]

\* c: the props of the render whose handlePlaybackEnd this is
handlePlaybackEnd(a, c, isManualStop) ==
    IF a.postRecitationActionInProgress
    THEN startListening([a EXCEPT !.postRecitationActionInProgress = FALSE], TRUE)
    ELSE IF a.isWelcomeSequencePlaying THEN a
    ELSE IF isManualStop
    THEN LET a1 == stopPlayback(a, c.scr, TRUE)
         IN  IF c.scr = "duaPlayer" THEN goBackToDuaList(a1, c.scr) ELSE a1
    ELSE IF c.scr = "surah" /\ c.surah # 0
    THEN LET a1 == stopPlayback(a, c.scr, TRUE)
             a2 == [a1 EXCEPT !.postRecitationActionInProgress = TRUE]
         IN  Play(a2, "post", [k |-> "postRecCatch"])
    ELSE IF c.scr = "duaPlayer" /\ c.dua # 0
    THEN goBackToDuaList(stopPlayback(a, c.scr, TRUE), c.scr)
    ELSE a

playSurah(a, c, n) ==
    LET a1 == [stopPlayback(a, c.scr, TRUE) EXCEPT !.currentSurah = n]
        a2 == [Play(a1, "surah", Noop) EXCEPT !.audio.onplaying = TRUE]
    IN  [a2 EXCEPT !.timers =
                       Append(@, [k |-> "playback", c |-> c])]

playDua(a, scr) ==
    LET a1 == stopListening(stopPlayback(a, scr, TRUE))
    IN  [Play(a1, "dua", [k |-> "duaCatch"]) EXCEPT !.audio.onplaying = TRUE]

selectDuaAndPlay(a, d) == [a EXCEPT !.currentDua = d, !.currentScreen = "duaPlayer"]

\* --------------------------------------------- App: spoken prompt sequences
\* Listener pairs (onEnded, onError) added by the playAudio helpers of the
\* screen effects; `cancelled` is the flag of the effect that added them.
MarkC(c, seq) ==
    IF c.k \in {"lsn", "delay"} /\ c.seq = seq THEN [c EXCEPT !.cancelled = TRUE]
    ELSE c

MarkAll(s, seq) == [i \in 1..Len(s) |-> MarkC(s[i], seq)]

\* A cancelled callback that only unregisters itself and returns: every
\* onEnded/onError/timer callback of the sequences except the pair of the
\* welcome sequence's last prompt, which calls startListening(true) before
\* it looks at `cancelled`.
Inert(c) ==
    /\ c.k \in {"lsn", "delay"}
    /\ c.cancelled
    /\ ~(c.k = "lsn" /\ c.seq = "welcome" /\ c.step = 2)

Live(s) == SelectSeq(s, LAMBDA c : ~Inert(c))

\* cancelled = true in the clean-up of the effect that runs sequence seq.
\* Inert callbacks are dropped at once: running them later changes nothing.
cancel(a, seq) ==
    [a EXCEPT !.audio.listeners = Live(MarkAll(@, seq)),
              !.audio.catch = IF Inert(MarkC(@, seq)) THEN Noop ELSE MarkC(@, seq),
              !.rejected = Live(MarkAll(@, seq)),
              !.timers = Live(MarkAll(@, seq))]

InstrSrc(scr) == IF scr = "surah" THEN "instrSurah" ELSE "instrDua"

SrcOf(seq, step) ==
    CASE seq = "welcome" -> IF step = 1 THEN "welcome1" ELSE "welcome2"
      [] seq = "landing" -> IF step = 1 THEN "landing1" ELSE "landing2"
      [] seq = "rules" -> "rules"
      [] OTHER -> seq

RulesChunks == 5  \* rulesTitle and the four rules

playAudio(a, seq, step, src) ==
    LET L == [k |-> "lsn", seq |-> seq, step |-> step, cancelled |-> FALSE]
    IN  Play([a EXCEPT !.audio.listeners = Append(@, L)], src, L)

\* history: a callback of a cancelled sequence started the recognizer
MarkStale(before, after, L) ==
    IF /\ L.cancelled
       /\ after.recognition.phase = "listening"
       /\ before.recognition.phase # "listening"
    THEN [after EXCEPT !.last.stale = TRUE]
    ELSE after

lsnEnded(a, L) ==
    LET a1 == [a EXCEPT !.audio.listeners = RemoveFirst(@, L)]
    IN  CASE L.seq = "welcome" ->
               LET a2 == IF L.step = 2
                         THEN MarkStale(a1, startListening(a1, TRUE), L)
                         ELSE a1
               IN  IF L.cancelled THEN a2
                   ELSE IF L.step = 1
                   THEN playAudio(a2, "welcome", 2, SrcOf("welcome", 2))
                   ELSE [a2 EXCEPT !.isWelcomeSequencePlaying = FALSE]
          [] L.seq = "landing" ->
               IF L.cancelled THEN a1
               ELSE IF L.step = 1
               THEN playAudio(a1, "landing", 2, SrcOf("landing", 2))
               ELSE startListening(a1, FALSE)
          [] L.seq = "rules" ->
               IF L.cancelled \/ L.step >= RulesChunks THEN a1
               ELSE playAudio(a1, "rules", L.step + 1, "rules")
          [] OTHER ->
               IF L.cancelled THEN a1 ELSE startListening(a1, TRUE)

\* settled: the promise of this playAudio call was already rejected
lsnError(a, L, settled) ==
    LET a1 == [a EXCEPT !.audio.listeners = RemoveFirst(@, L)]
    IN  CASE L.seq = "welcome" ->
               LET a2 == IF L.step = 2
                         THEN MarkStale(a1, startListening(a1, TRUE), L)
                         ELSE a1
               IN  IF L.cancelled \/ settled THEN a2
                   ELSE [a2 EXCEPT !.isWelcomeSequencePlaying = FALSE]
          [] L.seq \in {"landing", "rules"} -> a1
          [] OTHER ->
               IF L.cancelled THEN a1 ELSE startListening(a1, TRUE)

\* the onended property set by handleLandingCommand
propEnded(a) ==
    IF a.audio.onended.k = "landErr" /\ a.audio.onended.again
    THEN startListening(a, FALSE)
    ELSE a

RECURSIVE dispatchEnded(_, _)
dispatchEnded(a, snap) ==
    IF snap = <<>> THEN a
    ELSE LET L == Head(snap)
             a1 == IF ~InSeq(a.audio.listeners, L) THEN a
                   ELSE IF L.k = "prop" THEN propEnded(a)
                   ELSE lsnEnded(a, L)
         IN  dispatchEnded(a1, Tail(snap))

RECURSIVE dispatchError(_, _)
dispatchError(a, snap) ==
    IF snap = <<>> THEN a
    ELSE LET L == Head(snap)
             a1 == IF ~InSeq(a.audio.listeners, L) \/ L.k = "prop" THEN a
                   ELSE lsnError(a, L, FALSE)
         IN  dispatchError(a1, Tail(snap))

\* the reaction to a rejected play() promise
runCatch(a, cb, settled) ==
    CASE cb.k = "lsn" -> lsnError(a, cb, settled)
      [] cb.k = "postRecCatch" ->
           startListening([a EXCEPT !.postRecitationActionInProgress = FALSE], TRUE)
      [] cb.k = "duaCatch" ->
           [a EXCEPT !.isPlaying = FALSE, !.timers = Append(@, [k |-> "duaFail"])]
      [] cb.k = "landErrCatch" ->
           IF cb.again THEN startListening(a, FALSE) ELSE a
      [] OTHER -> a

\* ------------------------------------------------- App: command handlers
handleWelcomeCommand(a, command) ==
    IF includes(toLowerCase(command), continueWord)
    THEN [a EXCEPT !.currentScreen = "landing"]
    ELSE a

\* (no sort: the keys in insertion order)
KeyBefore_unsorted(i, j) == i < j
KeyBefore(i, j) ==
    \/ Len(surahKeys[i]) > Len(surahKeys[j])
    \/ Len(surahKeys[i]) = Len(surahKeys[j]) /\ i < j

KeyMatches(command, i) ==
    \/ includes(toLowerCase(command), surahKeys[i])
    \/ includes(toLowerCase(command), hyphensToSpaces(surahKeys[i]))

\* the first matching key of the keys sorted by decreasing length
foundSurahKey(command) ==
    {i \in 1..Len(surahKeys) :
        /\ KeyMatches(command, i)
        /\ \A j \in 1..Len(surahKeys) :
               (j # i /\ KeyMatches(command, j)) => KeyBefore(i, j)}

Cl(p) == [scr |-> p.scr, surah |-> p.surah, dua |-> p.dua]

handleVoiceCommand(a, H, command) ==
    IF command = <<>> THEN a
    ELSE LET found == foundSurahKey(command)
         IN  IF found # {}
             THEN playSurah(a, Cl(H), surahNumber(surahKeys[CHOOSE i \in found : TRUE]))
             ELSE [a EXCEPT !.last.msg = "surahNotFound"]

\* (the last match in catalog order)
foundDua_last(transcript) ==
    {d \in Duas :
        /\ \E kw \in duaDatabase[d] :
               includes(toLowerCase(transcript), toLowerCase(kw))
        /\ \A e \in Duas :
               (\E kw \in duaDatabase[e] :
                    includes(toLowerCase(transcript), toLowerCase(kw))) => d >= e}
foundDua(transcript) ==
    {d \in Duas :
        /\ \E kw \in duaDatabase[d] :
               includes(toLowerCase(transcript), toLowerCase(kw))
        /\ \A e \in Duas :
               (\E kw \in duaDatabase[e] :
                    includes(toLowerCase(transcript), toLowerCase(kw))) => d <= e}

handleDuaRequest(a, transcript) ==
    LET found == foundDua(transcript)
    IN  IF found # {} THEN selectDuaAndPlay(a, CHOOSE d \in found : TRUE)
        ELSE [a EXCEPT !.last.msg = "duaNotFound"]

MaxFailedAttempts == 3

\* the if / else-if chain over the keyword lists: "" when nothing matches
landingTarget_swapped(lowerCommand) ==
    IF \E kw \in quizKeywords : includes(lowerCommand, kw) THEN "quizRules"
    ELSE IF \E kw \in duaKeywords : includes(lowerCommand, kw) THEN "duaList"
    ELSE IF \E kw \in surahKeywords : includes(lowerCommand, kw) THEN "surah"
    ELSE ""
landingTarget(lowerCommand) ==
    IF \E kw \in surahKeywords : includes(lowerCommand, kw) THEN "surah"
    ELSE IF \E kw \in quizKeywords : includes(lowerCommand, kw) THEN "quizRules"
    ELSE IF \E kw \in duaKeywords : includes(lowerCommand, kw) THEN "duaList"
    ELSE ""

handleLandingCommand(a, H, command) ==
    LET lowerCommand == trim(stripPunct(toLowerCase(command)))
        target == landingTarget(lowerCommand)
    IN  IF target # ""
        THEN [a EXCEPT !.failedRecognitionAttempts = 0, !.currentScreen = target]
        ELSE LET newAttemptCount == H.failed + 1
                 shouldListenAgain == newAttemptCount < MaxFailedAttempts
                 a1 == stopListening(
                           [a EXCEPT !.failedRecognitionAttempts = newAttemptCount])
                 a2 == Play(a1, IF shouldListenAgain THEN "err" ELSE "final",
                            [k |-> "landErrCatch", again |-> shouldListenAgain])
             IN  SetOnended(a2, [k |-> "landErr", again |-> shouldListenAgain])

\* recognition.onresult, installed by the render with props H
onresult(a, H, raw) ==
    LET transcript == trim(toLowerCase(raw))
    IN  CASE H.scr = "welcome" -> handleWelcomeCommand(a, transcript)
          [] H.scr = "surah" -> handleVoiceCommand(a, H, transcript)
          [] H.scr = "duaList" -> handleDuaRequest(a, transcript)
          [] H.scr = "landing" -> handleLandingCommand(a, H, transcript)
          [] OTHER -> a

\* recognition.onerror
onerror(a, H, error) ==
    LET a1 == [a EXCEPT !.isListening = FALSE]
    IN  IF H.scr = "landing" /\ error \in {"no-speech", "audio-capture"}
        THEN handleLandingCommand(a1, H, <<>>)
        ELSE a1

\* ------------------------------------------------------ App: the effects
\* Screens on which the recognition effect stops the recognizer and returns
\* no clean-up.
NoRecScreens == {"quiz", "quizRules", "initial", "duaPlayer"}

\* recognitionRef.current = null: a recognizer that has not ended lives on
dropRef(a) ==
    [a EXCEPT !.orphan = IF a.recognition.exists /\ a.recognition.phase # "idle"
                         THEN [k |-> "rec", phase |-> a.recognition.phase,
                               handlers |-> IF a.recognition.phase = "stopping"
                                            THEN a.recognition.handlers
                                            ELSE None]
                         ELSE @,
              !.recognition = [exists |-> FALSE, phase |-> "idle", handlers |-> None]]

\* What the recognizer's handlers read of the render that installed them:
\* the screen selects the command handler, handleVoiceCommand reaches
\* currentSurah through playSurah, handleLandingCommand reads
\* failedRecognitionAttempts.
Handlers(P) ==
    [scr |-> P.scr,
     surah |-> IF P.scr = "surah" THEN P.surah ELSE 0,
     dua |-> 0,
     failed |-> IF P.scr = "landing" THEN P.failed ELSE 0]

\* body of the recognition effect for the render with props P
recognitionEffect(a, run, P) ==
    IF ~run THEN a
    ELSE IF P.scr \in NoRecScreens
    THEN LET a1 == stopListening(a)
         IN  IF P.scr \in {"quiz", "initial"} THEN dropRef(a1) ELSE a1
    ELSE LET a1 == IF a.recognition.exists THEN a
                   ELSE [a EXCEPT !.recognition.exists = TRUE,
                                  !.recognition.phase = "idle"]
         IN  [a1 EXCEPT !.recognition.handlers = Handlers(P)]

\* Each effect below takes `run`: whether a dependency of the effect
\* changed in this render (for the screen effects, currentScreen).
welcomeCleanup(a, run, X) ==
    IF run /\ X = "welcome"
    THEN stopListening(
             stopPlayback([cancel(a, "welcome")
                              EXCEPT !.isWelcomeSequencePlaying = FALSE],
                          X, TRUE))
    ELSE a

welcomeEffect(a, run, Y) ==
    IF run /\ Y = "welcome"
    THEN playAudio([stopPlayback(a, Y, TRUE)
                       EXCEPT !.isWelcomeSequencePlaying = TRUE],
                   "welcome", 1, SrcOf("welcome", 1))
    ELSE a

landingCleanup(a, run, X) ==
    IF run /\ X = "landing" THEN stopPlayback(cancel(a, "landing"), X, TRUE) ELSE a

landingEffect(a, run, Y) ==
    IF run /\ Y = "landing"
    THEN [stopPlayback(a, Y, TRUE)
             EXCEPT !.failedRecognitionAttempts = 0,
                    !.timers = Append(@, [k |-> "delay", seq |-> "landing",
                                          cancelled |-> FALSE])]
    ELSE a

rulesCleanup(a, run, X) ==
    IF run /\ X = "quizRules" THEN stopPlayback(cancel(a, "rules"), X, FALSE) ELSE a

rulesEffect(a, run, Y) ==
    IF run /\ Y = "quizRules"
    THEN playAudio(stopPlayback(a, Y, TRUE), "rules", 1, "rules")
    ELSE a

instrCleanup(a, run, X) ==
    IF run /\ X \in {"surah", "duaList"}
    THEN IF a.audio.src = InstrSrc(X)
         THEN stopPlayback(cancel(a, "instr"), X, FALSE)
         ELSE cancel(a, "instr")
    ELSE a

instrEffect(a, run, Y) ==
    IF run /\ Y \in {"surah", "duaList"}
    THEN playAudio(stopPlayback(a, Y, TRUE), "instr", 1, InstrSrc(Y))
    ELSE a

duaPlayerEffect(a, run, P) ==
    IF run /\ P.scr = "duaPlayer" /\ P.dua # 0 THEN playDua(a, P.scr) ELSE a

recognitionCleanup(a, run, X) ==
    IF run /\ X \notin NoRecScreens THEN stopListening(a) ELSE a

\* One render: prev are the props of the previous render, cur the state
\* with the updates to render.  Clean-ups of the effects whose dependencies
\* changed run first, then their bodies, in source order.
RenderPass(prev, cur) ==
    LET P == Props(cur)
        X == prev.scr
        Y == P.scr
        sc == X # Y
        dc == prev # P
        c1 == welcomeCleanup(cur, sc, X)
        c2 == landingCleanup(c1, sc, X)
        c3 == rulesCleanup(c2, sc, X)
        c4 == instrCleanup(c3, sc, X)
        c5 == recognitionCleanup(c4, dc, X)
        b1 == welcomeEffect(c5, sc, Y)
        b2 == landingEffect(b1, sc, Y)
        b3 == rulesEffect(b2, sc, Y)
        b4 == instrEffect(b3, sc, Y)
        b5 == duaPlayerEffect(b4, sc \/ prev.dua # P.dua, P)
    IN  recognitionEffect(b5, dc, P)

\* Renders until the effects change no dependency any more.
RECURSIVE Render(_, _)
Render(prev, cur) ==
    LET n == RenderPass(prev, cur)
    IN  IF Props(n) = Props(cur) THEN n ELSE Render(Props(cur), n)

\* ---------------------------------------------------------- App: actions
\* `last` is history: the recognizer event being handled (any other step is
\* recorded as "step") and what it delivered; msg is the not-found message
\* the step put in `message` or `duaMessage`, "" when it set none.
RecOps == {"RecResult", "RecError", "OrphanResult"}

\* also recorded: the audio that ended or failed to load, the stop button
\* of the duaPlayer screen, the kind of timer that fired
HistoryOps == RecOps \cup {"AudioEnded", "AudioError", "DuaPlayerStop", "TimerFires"}

Begin(op, arg) ==
    [AppState EXCEPT !.last = [op |-> IF op \in HistoryOps THEN op ELSE "step",
                               arg |-> IF op \in HistoryOps THEN arg ELSE <<>>,
                               stale |-> FALSE, msg |-> ""]]

Finish(a0, h) == CommitApp(Render(Props(a0), h))

\* A promise reaction runs before any later task.
Quiet == rejected = <<>>

ClickStart ==
    /\ Quiet /\ currentScreen = "initial"
    /\ LET a == Begin("ClickStart", <<>>)
       IN  Finish(a, [a EXCEPT !.currentScreen = "welcome"])

ClickContinue ==
    /\ Quiet /\ currentScreen = "welcome"
    /\ LET a == Begin("ClickContinue", <<>>)
       IN  Finish(a, [a EXCEPT !.currentScreen = "landing"])

\* the four buttons of the landing screen
LandingButton ==
    /\ Quiet /\ currentScreen = "landing"
    /\ \E target \in {"welcome", "surah", "quizRules", "duaList"} :
           LET a == Begin("LandingButton", <<target>>)
           IN  Finish(a, [a EXCEPT !.currentScreen = target])

\* the Back button of the surah, duaList and quizRules screens, and the
\* Home button of the quiz (QuizScreen's handleGoBack calls goBack)
\* (a recognizer dropped on entering the quiz has ended before the user
\* leaves the quiz again)
ClickGoBack ==
    /\ Quiet /\ currentScreen \in {"surah", "duaList", "quizRules", "quiz"}
    /\ orphan = None
    /\ LET a == Begin("ClickGoBack", <<>>)
       IN  Finish(a, goBack(a, a.currentScreen))

ClickStartQuiz ==
    /\ Quiet /\ currentScreen = "quizRules"
    /\ LET a == Begin("ClickStartQuiz", <<>>)
       IN  Finish(a, [a EXCEPT !.currentScreen = "quiz"])

ClickSurahTile ==
    /\ Quiet /\ currentScreen = "surah"
    /\ \E n \in SurahNumbers :
           LET a == Begin("ClickSurahTile", <<n>>)
           IN  Finish(a, playSurah(a, Cl(Props(a)), n))

\* the round button of the surah screen: Stop while isPlaying, else Mic
ClickSurahButton ==
    /\ Quiet /\ currentScreen = "surah"
    /\ LET a == Begin("ClickSurahButton", <<>>)
       IN  Finish(a, IF a.isPlaying
                     THEN handlePlaybackEnd(a, Cl(Props(a)), TRUE)
                     ELSE startListening(a, TRUE))

ClickDua ==
    /\ Quiet /\ currentScreen = "duaList"
    /\ \E d \in Duas :
           LET a == Begin("ClickDua", <<d>>)
           IN  Finish(a, selectDuaAndPlay(a, d))

ClickDuaMic ==
    /\ Quiet /\ currentScreen = "duaList"
    /\ LET a == Begin("ClickDuaMic", <<>>)
       IN  Finish(a, startListening(a, TRUE))

DuaPlayerBack ==
    /\ Quiet /\ currentScreen = "duaPlayer" /\ currentDua # 0
    /\ LET a == Begin("DuaPlayerBack", <<>>)
       IN  Finish(a, goBackToDuaList(a, a.currentScreen))

DuaPlayerStop ==
    /\ Quiet /\ currentScreen = "duaPlayer" /\ currentDua # 0
    /\ LET a == Begin("DuaPlayerStop", <<>>)
       IN  Finish(a, handlePlaybackEnd(a, Cl(Props(a)), TRUE))

\* playback starts: the play() promise resolves, 'playing' fires
AudioPlaying ==
    /\ Quiet /\ audio.phase = "pending"
    /\ LET a == Begin("AudioPlaying", <<>>)
       IN  Finish(a, [a EXCEPT !.audio.phase = "playing", !.audio.catch = None,
                               !.isPlaying = IF a.audio.onplaying THEN TRUE ELSE @])

\* playback reaches the end: 'ended' fires
\* (a prompt or recitation lasts longer than the 500 ms transition delay)
AudioEnded ==
    /\ Quiet /\ audio.phase = "playing"
    /\ \A i \in 1..Len(timers) : timers[i].k # "delay"
    /\ LET a == Begin("AudioEnded", <<audio.src>>)
           a1 == [a EXCEPT !.audio.phase = "none", !.audio.paused = TRUE]
           a2 == handlePlaybackEnd(a1, Cl(Props(a)), FALSE)
       IN  Finish(a, dispatchEnded(a2, a1.audio.listeners))

\* the source fails to load: 'error' fires, then play() is rejected
AudioError ==
    /\ Quiet /\ audio.phase = "pending"
    /\ LET a == Begin("AudioError", <<audio.src>>)
           a1 == [a EXCEPT !.audio.phase = "none", !.audio.catch = None]
           a2 == dispatchError(a1, a1.audio.listeners)
       IN  Finish(a, runCatch(a2, a.audio.catch, TRUE))

RunRejected ==
    /\ rejected # <<>>
    /\ LET a == Begin("RunRejected", <<>>)
           a1 == [a EXCEPT !.rejected = Tail(@)]
       IN  Finish(a, runCatch(a1, Head(a.rejected), FALSE))

Delay(t) ==
    CASE t.k = "delay" -> 500
      [] t.k = "duaFail" -> 2000
      [] OTHER -> 60000

fireTimer(a, t) ==
    CASE t.k = "delay" ->
           IF t.cancelled THEN a
           ELSE playAudio(a, "landing", 1, SrcOf("landing", 1))
      [] t.k = "duaFail" -> goBackToDuaList(a, "duaPlayer")
      [] OTHER ->
           IF ~a.audio.paused THEN handlePlaybackEnd(a, t.c, FALSE) ELSE a

TimerFires ==
    /\ Quiet
    /\ \E i \in 1..Len(timers) :
           /\ \A j \in 1..(i - 1) : Delay(timers[j]) > Delay(timers[i])
           /\ LET a == Begin("TimerFires", <<timers[i].k>>)
                  a1 == [a EXCEPT !.timers =
                                      SubSeq(@, 1, i - 1) \o SubSeq(@, i + 1, Len(@))]
              IN  Finish(a, fireTimer(a1, timers[i]))

RecResult ==
    /\ Quiet /\ recognition.exists /\ recognition.phase \in {"listening", "stopping"}
    /\ \E t \in Spoken(recognition.handlers.scr) :
           LET a == Begin("RecResult", t)
               a1 == [a EXCEPT !.recognition.phase = "ending"]
           IN  Finish(a, onresult(a1, a.recognition.handlers, t))

RecError ==
    /\ Quiet /\ recognition.exists /\ recognition.phase \in {"listening", "stopping"}
    /\ \E e \in RecErrors :
           LET a == Begin("RecError", <<e>>)
               a1 == [a EXCEPT !.recognition.phase = "ending"]
           IN  Finish(a, onerror(a1, a.recognition.handlers, e))

\* 'end': recognition.onend = () => setIsListening(false)
RecEnd ==
    /\ Quiet /\ recognition.exists /\ recognition.phase \in {"stopping", "ending"}
    /\ LET a == Begin("RecEnd", <<>>)
       IN  Finish(a, [a EXCEPT !.recognition.phase = "idle", !.isListening = FALSE])

\* the dropped recognizer still delivers what it heard before stop()
OrphanResult ==
    /\ Quiet /\ orphan # None /\ orphan.phase = "stopping"
    /\ \E t \in Spoken(orphan.handlers.scr) :
           LET a == Begin("OrphanResult", t)
               a1 == [a EXCEPT !.orphan.phase = "ending", !.orphan.handlers = None]
           IN  Finish(a, onresult(a1, orphan.handlers, t))

OrphanEnd ==
    /\ Quiet /\ orphan # None
    /\ LET a == Begin("OrphanEnd", <<>>)
       IN  Finish(a, [a EXCEPT !.orphan = None, !.isListening = FALSE])

InitApp ==
    /\ currentScreen = "initial"
    /\ isListening = FALSE
    /\ isPlaying = FALSE
    /\ currentSurah = 0
    /\ currentDua = 0
    /\ failedRecognitionAttempts = 0
    /\ isWelcomeSequencePlaying = FALSE
    /\ postRecitationActionInProgress = FALSE
    /\ audio = [src |-> "none", paused |-> TRUE, phase |-> "none", catch |-> None,
                onended |-> None, onplaying |-> FALSE, listeners |-> <<>>]
    /\ recognition = [exists |-> FALSE, phase |-> "idle", handlers |-> None]
    /\ orphan = None
    /\ rejected = <<>>
    /\ timers = <<>>
    /\ last = [op |-> "Init", arg |-> <<>>, stale |-> FALSE, msg |-> ""]
    /\ quiz = QuizOff
    /\ tts = TtsIdle

NextApp ==
    \/ ClickStart \/ ClickContinue \/ LandingButton \/ ClickGoBack
    \/ ClickStartQuiz \/ ClickSurahTile \/ ClickSurahButton \/ ClickDua
    \/ ClickDuaMic \/ DuaPlayerBack \/ DuaPlayerStop
    \/ AudioPlaying \/ AudioEnded \/ AudioError \/ RunRejected \/ TimerFires
    \/ RecResult \/ RecError \/ RecEnd \/ OrphanResult \/ OrphanEnd

\* The App alone; the QuizScreen is specified by SpecQuiz.
Spec == InitApp /\ [][NextApp]_vars

\* The browser settles a pending play() (playback starts or the source
\* fails to load), a playing source reaches its end, promise reactions
\* run and timers fire.  The user and the recognizer owe nothing.
FairSpec ==
    /\ Spec
    /\ WF_vars(AudioPlaying \/ AudioError)
    /\ WF_vars(AudioEnded)
    /\ WF_vars(RunRejected)
    /\ WF_vars(TimerFires)

\* ------------------------------------------- App: the two voice lookups
\* The surah and duaList screens alone, with the recognizer returning every
\* short transcript over the letters of the catalog keys.
MaxCommand == 3

Strings(chars, n) == UNION {[1..k -> chars] : k \in 0..n}

SurahChars == {"a", "f", "n", "-", " ", "F"}
DuaChars == {"m", "e", "M", "x", " "}

Transcripts(scr) ==
    CASE scr = "surah" -> Strings(SurahChars, MaxCommand)
      [] scr = "duaList" -> Strings(DuaChars, MaxCommand)
      [] OTHER -> {<<"x">>}

\* the screen's instruction prompt has ended and started the recognizer
AppListeningOn(scr) ==
    /\ currentScreen = scr
    /\ isListening = TRUE
    /\ isPlaying = FALSE
    /\ currentSurah = 0
    /\ currentDua = 0
    /\ failedRecognitionAttempts = 0
    /\ isWelcomeSequencePlaying = FALSE
    /\ postRecitationActionInProgress = FALSE
    /\ audio = [src |-> InstrSrc(scr), paused |-> TRUE, phase |-> "none",
                catch |-> None, onended |-> None, onplaying |-> FALSE,
                listeners |-> <<>>]
    /\ recognition = [exists |-> TRUE, phase |-> "listening",
                      handlers |-> [scr |-> scr, surah |-> 0, dua |-> 0,
                                    failed |-> 0]]
    /\ orphan = None
    /\ rejected = <<>>
    /\ timers = <<>>
    /\ last = [op |-> "AudioEnded", arg |-> <<InstrSrc(scr)>>, stale |-> FALSE,
               msg |-> ""]
    /\ quiz = QuizOff
    /\ tts = TtsIdle

\* recognition.onresult with any of the transcripts
HearCommand ==
    /\ Quiet /\ recognition.exists /\ recognition.phase \in {"listening", "stopping"}
    /\ \E t \in Transcripts(recognition.handlers.scr) :
           LET a == Begin("RecResult", t)
               a1 == [a EXCEPT !.recognition.phase = "ending"]
           IN  Finish(a, onresult(a1, a.recognition.handlers, t))

InitLookup == \E scr \in {"surah", "duaList"} : AppListeningOn(scr)

NextLookup ==
    \/ HearCommand \/ RecEnd
    \/ ClickSurahButton \/ ClickDuaMic \/ DuaPlayerBack \/ DuaPlayerStop
    \/ AudioPlaying \/ AudioEnded \/ AudioError \/ RunRejected \/ TimerFires

SpecLookup == InitLookup /\ [][NextLookup]_vars

\* ---------------------------------- the speech-synthesis proxy: actions
ProxyCommit(t) == tts' = t /\ UNCHANGED <<appVars, quiz>>

\* a request arrives (the handler keeps nothing between requests)
TtsRequest ==
    /\ tts.pc \in {"idle", "done"}
    /\ \E text \in TtsTexts, lang \in TtsLangs :
           ProxyCommit(ttsHandle([text |-> text, lang |-> lang]))

TtsReply ==
    /\ tts.pc = "fetch"
    /\ \E status \in UpstreamStatuses : ProxyCommit(ttsFetched(tts, status))

\* fetch rejects (network failure)
TtsFetchThrows == tts.pc = "fetch" /\ ProxyCommit(ttsCatch(tts))

TtsBuffered ==
    /\ tts.pc = "buffer"
    /\ \E body \in Bodies : ProxyCommit(ttsBuffered(tts, body))

\* arrayBuffer() rejects (the connection breaks while the body is read)
TtsBufferThrows == tts.pc = "buffer" /\ ProxyCommit(ttsCatch(tts))

InitTts == InitApp

NextTts ==
    \/ TtsRequest \/ TtsReply \/ TtsFetchThrows \/ TtsBuffered \/ TtsBufferThrows

\* The proxy alone, serving one request after another.
SpecTts == InitTts /\ [][NextTts]_vars

\* ------------------------------------ the speech-synthesis proxy: claims
\* the request being served has no 'text' parameter
NoText == ~tts.query.text.has

\* C13: a request without a 'text' query parameter is answered with status
\* 400 and the body 'Text query parameter is required' and nothing is sent
\* upstream; a request that is sent upstream without 'lang' asks for 'ta'.
C13_TextIsRequired ==
    /\ (tts.pc # "idle" /\ NoText) =>
           /\ tts.pc = "done"
           /\ tts.upstream = <<>>
           /\ Len(tts.sent) = 1
           /\ tts.sent[1].status = 400
           /\ tts.sent[1].text = "Text query parameter is required"
    /\ \A i \in 1..Len(tts.upstream) :
           tts.upstream[i].tl =
               IF tts.query.lang.has THEN tts.query.lang.v ELSE <<"t", "a">>

\* a request without 'text' was rejected
C13_Witness ==
    /\ tts.pc = "done" /\ NoText
    /\ tts.sent = <<SendText(400, "Text query parameter is required")>>

\* C14: every request gets exactly one response: the upstream status and
\* no audio when the upstream reply is not OK, 500 when fetching or
\* buffering throws, and only for an OK reply Content-Type audio/mpeg with
\* Content-Length equal to the length of the relayed body.
C14_OneResponse ==
    /\ tts.pc \in {"fetch", "buffer", "idle"} => tts.sent = <<>>
    /\ tts.pc = "done" =>
           /\ Len(tts.sent) = 1
           /\ LET res == tts.sent[1]
                  audio_mpeg == res.contentType = "audio/mpeg"
              IN  /\ (tts.reply.k = "reply" /\ ~ok(tts.reply.status)) =>
                         /\ res.status = tts.reply.status
                         /\ ~audio_mpeg /\ res.bytes = <<>>
                  /\ tts.reply.k = "threw" => res.status = 500 /\ ~audio_mpeg
                  /\ audio_mpeg =>
                         /\ tts.reply.k = "reply" /\ ok(tts.reply.status)
                         /\ res.bytes = tts.reply.body
                         /\ res.contentLength = Len(tts.reply.body)
                  /\ (tts.reply.k = "reply" /\ ok(tts.reply.status)) => audio_mpeg

\* an OK upstream reply with a body of MaxBody bytes was relayed
C14_Witness ==
    /\ tts.pc = "done" /\ tts.reply.k = "reply" /\ ok(tts.reply.status)
    /\ Len(tts.reply.body) = MaxBody
    /\ tts.sent[1].contentLength = MaxBody

\* ---------------------------------------------------------- App: claims
Listening == recognition.exists /\ recognition.phase = "listening"

\* C1: the recognizer is never in active listening while the shared audio
\* element is playing, whatever the interleaving of clicks, audio events and
\* recognizer events.
C1_NeverListeningWhilePlaying == ~(Listening /\ audio.phase = "playing")

\* C7: once a screen has been left, no callback of its cancelled prompt
\* sequence has any effect: a later 'ended' or 'error' (or the rejection of
\* the interrupted play()) never makes the cancelled sequence start the
\* recognizer.
C7_CancelledSequenceIsSilent == ~last.stale

Edges ==
    {<<"initial", "welcome">>, <<"welcome", "landing">>,
     <<"landing", "welcome">>, <<"landing", "surah">>,
     <<"landing", "quizRules">>, <<"landing", "duaList">>,
     <<"surah", "landing">>, <<"quizRules", "landing">>,
     <<"quizRules", "quiz">>, <<"quiz", "landing">>,
     <<"duaList", "landing">>, <<"duaList", "duaPlayer">>,
     <<"duaPlayer", "duaList">>}

\* C8: the screen is one of the eight screens and changes only along the
\* listed edges; no timer, late recognizer result or late audio callback
\* moves it along another edge, and 'initial' is never entered again.
C8_OnlyListedEdges ==
    [][/\ currentScreen' \in Screens
       /\ currentScreen' # currentScreen =>
              <<currentScreen, currentScreen'>> \in Edges]_vars

\* A transcript as the landing screen hears it: lower case, the marks . , ?
\* removed, no space at either end.
Heard(t) == trim(stripPunct(toLowerCase(t)))

Says(t, keywords) ==
    \E kw \in keywords : \E i \in 1..Len(Heard(t)) :
        /\ i + Len(kw) - 1 <= Len(Heard(t))
        /\ SubSeq(Heard(t), i, i + Len(kw) - 1) = kw

\* a speech result is delivered to the handler installed on the landing
\* screen, on the landing screen
LandingResult ==
    /\ currentScreen = "landing"
    /\ recognition.handlers.scr = "landing"
    /\ last'.op = "RecResult"

\* C9: on the landing screen a transcript containing a surah keyword goes
\* to 'surah', otherwise one containing a quiz keyword goes to 'quizRules',
\* otherwise one containing a dua keyword goes to 'duaList', and each of
\* these sets failedRecognitionAttempts to 0.
C9_LandingSpeechNavigates ==
    [][LandingResult =>
          LET t == last'.arg
          IN  /\ Says(t, surahKeywords) =>
                     currentScreen' = "surah" /\ failedRecognitionAttempts' = 0
              /\ ~Says(t, surahKeywords) /\ Says(t, quizKeywords) =>
                     currentScreen' = "quizRules" /\ failedRecognitionAttempts' = 0
              /\ (~Says(t, surahKeywords) /\ ~Says(t, quizKeywords)
                     /\ Says(t, duaKeywords)) =>
                     currentScreen' = "duaList" /\ failedRecognitionAttempts' = 0]_vars

\* a transcript with two keywords was heard on the landing screen, the
\* screen of the higher priority was opened and the count is 0
C9_Witness ==
    /\ last.op = "RecResult"
    /\ Says(last.arg, surahKeywords) /\ Says(last.arg, quizKeywords)
    /\ currentScreen = "surah"
    /\ recognition.handlers.scr = "surah"
    /\ failedRecognitionAttempts = 0

\* the landing handler takes an unmatched transcript or a 'no-speech' /
\* 'audio-capture' error
LandingFailure ==
    /\ currentScreen = "landing"
    /\ recognition.handlers.scr = "landing"
    /\ \/ /\ last'.op = "RecResult"
          /\ ~Says(last'.arg, surahKeywords \cup quizKeywords \cup duaKeywords)
       \/ /\ last'.op = "RecError"
          /\ last'.arg \in {<<"no-speech">>, <<"audio-capture">>}

\* C10: on the landing screen every unmatched transcript and every
\* 'no-speech' / 'audio-capture' error adds 1 to failedRecognitionAttempts,
\* which stays within 0..3; after the first and second failure the error
\* prompt is spoken and listening restarts when it ends, after the third the
\* 'use the buttons' prompt is spoken and listening does not restart while
\* the landing screen stays open.
C10_LandingFailures ==
    [][/\ failedRecognitionAttempts' \in 0..MaxFailedAttempts
       /\ LandingFailure =>
              /\ failedRecognitionAttempts' = failedRecognitionAttempts + 1
              /\ audio'.src =
                     IF failedRecognitionAttempts' < MaxFailedAttempts
                     THEN "err" ELSE "final"
              /\ audio'.onended =
                     [k |-> "landErr",
                      again |-> failedRecognitionAttempts' < MaxFailedAttempts]
       /\ (/\ currentScreen = "landing" /\ currentScreen' = "landing"
           /\ failedRecognitionAttempts >= MaxFailedAttempts
           /\ failedRecognitionAttempts' >= MaxFailedAttempts)
              => ~(~Listening /\ Listening')]_vars

\* the post-recitation prompt is starting or playing
PostPrompt ==
    /\ postRecitationActionInProgress
    /\ audio.src = "post" /\ audio.phase \in {"pending", "playing"}

\* this step starts the recognizer
Starts == ~Listening /\ Listening'

\* C17: when a recitation ends on the surah screen the post-recitation
\* prompt is played; the recognizer is not started before that prompt has
\* ended or failed to play, and is started when it does, with
\* postRecitationActionInProgress false again.
C17_ListenAfterPostPrompt ==
    [][/\ (currentScreen = "surah" /\ last'.op = "AudioEnded"
              /\ last'.arg = <<"surah">>) => PostPrompt' /\ ~Starts
       /\ (PostPrompt /\ PostPrompt') => ~Starts
       /\ (/\ PostPrompt /\ currentScreen = "surah"
           /\ last'.op \in {"AudioEnded", "AudioError"} /\ last'.arg = <<"post">>
           /\ recognition.exists /\ recognition.phase = "idle")
              => Starts /\ ~postRecitationActionInProgress']_vars

\* the supplication's audio ends, or the stop button is pressed, on the
\* duaPlayer screen
DuaOver ==
    /\ currentScreen = "duaPlayer"
    /\ \/ last'.op = "DuaPlayerStop"
       \/ last'.op = "AudioEnded" /\ last'.arg = <<"dua">>

\* C18: when a supplication's audio ends on the duaPlayer screen, or the
\* stop button is pressed there, the app is back on duaList with no
\* currentDua, isPlaying false and the supplication no longer playing, and
\* the recognizer is not started by that event, whatever was played on
\* other screens before.
C18_DuaOverReturnsToList ==
    [][DuaOver =>
          /\ currentScreen' = "duaList"
          /\ currentDua' = 0
          /\ ~isPlaying'
          /\ ~(audio'.src = "dua" /\ audio'.phase \in {"pending", "playing"})
          /\ ~Starts]_vars

\* the welcome effect has just run: the first welcome prompt is loading
WelcomeEntered ==
    /\ currentScreen = "welcome"
    /\ isWelcomeSequencePlaying
    /\ audio.src = "welcome1" /\ audio.phase = "pending"

\* C19: once the welcome screen is shown, the recognizer is eventually
\* listening unless the user leaves the screen, whether the two welcome
\* prompts play or fail to play.
C19_WelcomeListens == WelcomeEntered ~> (Listening \/ currentScreen # "welcome")

\* the instruction prompt of the surah or duaList screen is loading or playing
InstrActive ==
    /\ currentScreen \in {"surah", "duaList"}
    /\ audio.src = InstrSrc(currentScreen)
    /\ audio.phase \in {"pending", "playing"}

\* the instruction prompt ends or fails to load and the screen is not left
InstrOver ==
    /\ currentScreen \in {"surah", "duaList"}
    /\ currentScreen' = currentScreen
    /\ last'.op \in {"AudioEnded", "AudioError"}
    /\ last'.arg = <<InstrSrc(currentScreen)>>

\* C20: on the surah and duaList screens the end of the instruction prompt,
\* and its failure to play, start the recognizer (when there is an idle one
\* to start) provided the screen has not been left, and no step starts the
\* recognizer while the instruction prompt is still loading or playing.
C20_ListenAfterInstruction ==
    [][/\ (InstrOver /\ recognition.exists /\ recognition.phase = "idle") => Starts
       /\ InstrActive' => ~Starts]_vars

\* the 60-second timer of playSurah fires while the recitation is playing
TimerOnRecitation ==
    /\ currentScreen = "surah"
    /\ audio.src = "surah" /\ audio.phase = "playing"
    /\ last'.op = "TimerFires" /\ last'.arg = <<"playback">>

\* C21: when the 60-second timer of a recitation fires while the recitation
\* is still playing, the recitation is stopped and the handling of a
\* natural end runs: the post-recitation prompt is started with
\* postRecitationActionInProgress set; this holds for the first recitation
\* played after entering the surah screen too.
C21_TimerEndsRecitation ==
    [][TimerOnRecitation => PostPrompt' /\ ~isPlaying']_vars

\* key, as written or with its hyphens replaced by spaces, occurs in the
\* lower-cased command
KeyIn(key, command) ==
    \/ includes(toLowerCase(command), key)
    \/ includes(toLowerCase(command), hyphensToSpaces(key))

\* C22: a transcript heard on the surah screen plays a chapter whose key
\* occurs in the lower-cased command (as written or with hyphens replaced by
\* spaces) and is longest among the keys that occur; when no key occurs the
\* not-found message is set and playback and currentSurah are unchanged; an
\* empty command changes nothing.
C22_LongestKeyWins ==
    [][(currentScreen = "surah" /\ last'.op = "RecResult") =>
          LET command == trim(toLowerCase(last'.arg))
              hits == {i \in DOMAIN surahKeys : KeyIn(surahKeys[i], command)}
          IN  CASE command = <<>> ->
                     /\ last'.msg = ""
                     /\ UNCHANGED <<currentScreen, isListening, isPlaying,
                                    currentSurah, currentDua, audio, timers,
                                    rejected, postRecitationActionInProgress>>
                [] command # <<>> /\ hits = {} ->
                     /\ last'.msg = "surahNotFound"
                     /\ UNCHANGED <<currentScreen, isPlaying, currentSurah,
                                    audio, timers, rejected>>
                [] OTHER ->
                     /\ last'.msg = ""
                     /\ audio'.src = "surah" /\ audio'.phase = "pending"
                     /\ \E i \in hits :
                            /\ \A j \in hits : Len(surahKeys[j]) <= Len(surahKeys[i])
                            /\ currentSurah' = surahNumber(surahKeys[i])]_vars

\* a command in which a key of chapter 1 and a longer key of chapter 2 occur
\* has started the recitation of chapter 2
C22_Witness ==
    /\ last.op = "RecResult" /\ last.arg = <<"n", "F">>
    /\ currentScreen = "surah" /\ currentSurah = 2
    /\ audio.src = "surah" /\ audio.phase = "pending"

\* C23: a transcript heard on the duaList screen selects the first
\* supplication, in catalog order, one of whose keywords occurs in it
\* whatever the case of the letters, and moves to duaPlayer; when no
\* keyword occurs the screen stays duaList, currentDua stays empty and only
\* the not-found message is set.
C23_FirstDuaWins ==
    [][(currentScreen = "duaList" /\ last'.op = "RecResult") =>
          LET transcript == trim(toLowerCase(last'.arg))
              hits == {d \in DOMAIN duaDatabase :
                          \E kw \in duaDatabase[d] :
                              includes(toLowerCase(transcript), toLowerCase(kw))}
          IN  IF hits = {}
              THEN /\ last'.msg = "duaNotFound"
                   /\ currentScreen' = "duaList"
                   /\ currentDua = 0 /\ currentDua' = 0
                   /\ UNCHANGED <<isListening, isPlaying, currentSurah, audio,
                                  timers, rejected>>
              ELSE /\ last'.msg = ""
                   /\ currentScreen' = "duaPlayer"
                   /\ \E d \in hits :
                          /\ \A e \in hits : d <= e
                          /\ currentDua' = d]_vars

\* a transcript in which keywords of both supplications occur has selected
\* the first one
C23_Witness ==
    /\ last.op = "RecResult" /\ last.arg = <<"M", "e">>
    /\ currentScreen = "duaPlayer" /\ currentDua = 1

====
